---- MODULE Spec2Model ----
(***************************************************************************)
(* Model of the histogram builder of demoland-web (the chart data module): *)
(* bin, getMean, calculateTickStepSize, prettyLabel and the three          *)
(* makeChartData variants.                                                 *)
(*                                                                         *)
(* The TypeScript type `number` is an IEEE-754 binary64 value.  It is      *)
(* modelled exactly: a finite number is sign * m * 2^e with m a 53-bit     *)
(* significand held as an arbitrary-precision natural (TLC integers are    *)
(* 32 bits wide), every arithmetic operation computes the exact result and *)
(* rounds it to nearest, ties to even.  NaN and the infinities are         *)
(* separate kinds.  Exponent overflow and subnormals are not modelled: the *)
(* inputs are small, so no operation gets near either.                     *)
(***************************************************************************)
EXTENDS Integers, Sequences, FiniteSets, TLC

VARIABLES pc, args, out

vars == <<pc, args, out>>

-----------------------------------------------------------------------------
(* Arbitrary-precision naturals: little-endian sequences of 15-bit limbs,  *)
(* without leading zero limbs; zero is the empty sequence.                  *)

Base == 2^15

RECURSIVE BTrim(_)
BTrim(a) ==
    IF a = <<>> THEN a
    ELSE IF a[Len(a)] = 0 THEN BTrim(SubSeq(a, 1, Len(a) - 1)) ELSE a

RECURSIVE BInt(_)
BInt(n) == IF n = 0 THEN <<>> ELSE <<n % Base>> \o BInt(n \div Base)

RECURSIVE BToInt(_)
BToInt(a) == IF a = <<>> THEN 0 ELSE a[1] + Base * BToInt(Tail(a))

Limb(a, i) == IF i <= Len(a) THEN a[i] ELSE 0

RECURSIVE BCmpAt(_, _, _)
BCmpAt(a, b, i) ==
    IF i = 0 THEN 0
    ELSE IF a[i] < b[i] THEN -1
    ELSE IF a[i] > b[i] THEN 1
    ELSE BCmpAt(a, b, i - 1)

BCmp(a, b) ==
    IF Len(a) < Len(b) THEN -1
    ELSE IF Len(a) > Len(b) THEN 1
    ELSE BCmpAt(a, b, Len(a))

RECURSIVE BAddAt(_, _, _, _)
BAddAt(a, b, i, c) ==
    IF i > Len(a) /\ i > Len(b)
    THEN (IF c = 0 THEN <<>> ELSE <<c>>)
    ELSE LET t == Limb(a, i) + Limb(b, i) + c
         IN  <<t % Base>> \o BAddAt(a, b, i + 1, t \div Base)

BAdd(a, b) == BAddAt(a, b, 1, 0)

\* a - b, for a >= b
RECURSIVE BSubAt(_, _, _, _)
BSubAt(a, b, i, c) ==
    IF i > Len(a) THEN <<>>
    ELSE LET t == a[i] - Limb(b, i) - c
         IN  IF t < 0 THEN <<t + Base>> \o BSubAt(a, b, i + 1, 1)
                      ELSE <<t>> \o BSubAt(a, b, i + 1, 0)

BSub(a, b) == BTrim(BSubAt(a, b, 1, 0))

\* a * k, for 0 <= k <= Base
RECURSIVE BMulSmallAt(_, _, _, _)
BMulSmallAt(a, k, i, c) ==
    IF i > Len(a) THEN (IF c = 0 THEN <<>> ELSE <<c>>)
    ELSE LET t == a[i] * k + c
         IN  <<t % Base>> \o BMulSmallAt(a, k, i + 1, t \div Base)

BMulSmall(a, k) == IF k = 0 THEN <<>> ELSE BMulSmallAt(a, k, 1, 0)

BShiftLimbs(a, n) == IF a = <<>> THEN a ELSE [i \in 1..n |-> 0] \o a

RECURSIVE BMulAt(_, _, _)
BMulAt(a, b, i) ==
    IF i > Len(b) THEN <<>>
    ELSE BAdd(BShiftLimbs(BMulSmall(a, b[i]), i - 1), BMulAt(a, b, i + 1))

BMul(a, b) == BMulAt(a, b, 1)

\* a * 2^n
BShl(a, n) == BShiftLimbs(BMulSmall(a, 2^(n % 15)), n \div 15)

\* floor(a / k) and a % k, for 0 < k <= Base (short division from the top limb)
RECURSIVE BDivSmallAt(_, _, _, _)
BDivSmallAt(a, k, i, r) ==
    IF i = 0 THEN [q |-> <<>>, r |-> r]
    ELSE LET t    == r * Base + a[i]
             rest == BDivSmallAt(a, k, i - 1, t % k)
         IN  [q |-> Append(rest.q, t \div k), r |-> rest.r]

BDivSmall(a, k) == BTrim(BDivSmallAt(a, k, Len(a), 0).q)

BModSmall(a, k) == BDivSmallAt(a, k, Len(a), 0).r

\* floor(a / 2^n)
BShr(a, n) ==
    IF n \div 15 >= Len(a) THEN <<>>
    ELSE BDivSmall(SubSeq(a, n \div 15 + 1, Len(a)), 2^(n % 15))

RECURSIVE IntBitLen(_)
IntBitLen(n) == IF n = 0 THEN 0 ELSE 1 + IntBitLen(n \div 2)

BBitLen(a) == IF a = <<>> THEN 0 ELSE 15 * (Len(a) - 1) + IntBitLen(a[Len(a)])

BOdd(a) == a # <<>> /\ a[1] % 2 = 1

\* 10^p as a bignum, four decimal digits (one limb) at a time
RECURSIVE BPow10(_)
BPow10(p) == IF p <= 4 THEN <<10^p>> ELSE BMulSmall(BPow10(p - 4), 10^4)

\* the largest digit q < Base with q * d <= r, for r < d * Base: the estimate
\* from the top limbs is never too small, and is lowered until it fits
RECURSIVE BDigitFrom(_, _, _)
BDigitFrom(r, d, q) ==
    IF BCmp(BMulSmall(d, q), r) <= 0 THEN q ELSE BDigitFrom(r, d, q - 1)

IMin(i, j) == IF i < j THEN i ELSE j

BDigit(r, d) ==
    IF BCmp(r, d) < 0 THEN 0
    ELSE BDigitFrom(r, d, IMin(Base - 1, (Limb(r, Len(d) + 1) * Base + Limb(r, Len(d)))
                                             \div d[Len(d)]))

\* the quotient q0 and the running remainder r1 < d * Base after the next
\* digit q of the quotient
BDivDigit(q0, r1, d, q) ==
    [q |-> BTrim(<<q>> \o q0), r |-> BSub(r1, BMulSmall(d, q))]

BDivPut(q0, r1, d) == BDivDigit(q0, r1, d, BDigit(r1, d))

\* one step of schoolbook long division: the state st (quotient and
\* remainder of the limbs above) after the next lower limb ni
BDivStep(st, ni, d) ==
    IF st.r = <<>> /\ ni = 0
    THEN [q |-> BShiftLimbs(st.q, 1), r |-> <<>>]
    ELSE BDivPut(st.q, <<ni>> \o st.r, d)

\* quotient and remainder of the limbs n[i..Len(n)] by d
RECURSIVE BDivFrom(_, _, _)
BDivFrom(n, d, i) ==
    IF i > Len(n) THEN [q |-> <<>>, r |-> <<>>]
    ELSE BDivStep(BDivFrom(n, d, i + 1), n[i], d)

BDivUnscale(st, sh) == [q |-> st.q, r |-> BShr(st.r, sh)]

BDivScaled(n, d, sh) == BDivUnscale(BDivFrom(BShl(n, sh), BShl(d, sh), 1), sh)

\* floor(n / d) and n % d, for d > 0; both are first scaled so that the top
\* limb of d is at least Base / 2, which keeps the digit estimate within 2
BDivMod(n, d) == BDivScaled(n, d, 15 - IntBitLen(d[Len(d)]))

\* ceiling(a / 2^n)
BCeilFrom(a, n, q) == IF BShl(q, n) = a THEN q ELSE BAdd(q, <<1>>)

BCeilShr(a, n) == BCeilFrom(a, n, BShr(a, n))

-----------------------------------------------------------------------------
(* The type `number`: IEEE-754 binary64.  A finite nonzero value is        *)
(* (-1)^s * m * 2^e with 2^52 <= m < 2^53, so equal numbers are equal      *)
(* records.  The sign of zero is not kept (no operation modelled here      *)
(* tells -0 from +0).                                                       *)

MantBits == 53

NaN == [k |-> "nan", s |-> 0, m |-> <<>>, e |-> 0]

Infinity(s) == [k |-> "inf", s |-> s, m |-> <<>>, e |-> 0]

Zero == [k |-> "fin", s |-> 0, m |-> <<>>, e |-> 0]

IsNaN(a) == a.k = "nan"

IsInf(a) == a.k = "inf"

IsFinite(a) == a.k = "fin"

IsZero(a) == a.k = "fin" /\ a.m = <<>>

\* the number (-1)^s * q1 * 2^e, for q1 of 53 bits or, after a carry, 54
RoundUp(s, q1, e) ==
    IF BBitLen(q1) > MantBits
    THEN [k |-> "fin", s |-> s, m |-> BShr(q1, 1), e |-> e + 1]
    ELSE [k |-> "fin", s |-> s, m |-> q1, e |-> e]

\* the number (-1)^s * q * 2^e, for a 53-bit q, moved to the nearest number
\* when the exact value has a remainder beyond q: c is -1, 0 or 1 as that
\* remainder is below, at or above half a unit of q; ties go to even
RoundQuotient(s, q, c, e) ==
    IF c > 0 \/ (c = 0 /\ BOdd(q))
    THEN RoundUp(s, BAdd(q, <<1>>), e)
    ELSE [k |-> "fin", s |-> s, m |-> q, e |-> e]

\* n cut to its top 53 bits q, the sh bits below them rounded
RoundCut(s, n, e, sh, q) ==
    RoundQuotient(s, q, BCmp(BShl(BSub(n, BShl(q, sh)), 1), BShl(<<1>>, sh)), e + sh)

RoundDrop(s, n, e, sh) ==
    IF sh <= 0
    THEN [k |-> "fin", s |-> s, m |-> BShl(n, -sh), e |-> e + sh]
    ELSE RoundCut(s, n, e, sh, BShr(n, sh))

\* the binary64 nearest to (-1)^s * n * 2^e, ties to even
RoundInteger(s, n, e) ==
    IF n = <<>> THEN Zero ELSE RoundDrop(s, n, e, BBitLen(n) - MantBits)

\* the binary64 nearest to (-1)^s * (qr.q + f) * 2^e, where 0 <= f < 1 is
\* zero exactly when the remainder qr.r is, and qr.q has 55 bits or more:
\* f cannot change the result except by breaking a tie, which one more bit
\* below qr.q records
RoundSticky(s, qr, e) ==
    RoundInteger(s, IF qr.r = <<>> THEN BShl(qr.q, 1) ELSE BAdd(BShl(qr.q, 1), <<1>>),
                 e - 1)

\* the binary64 nearest to (-1)^s * (n / d) * 2^e, from the quotient of
\* n * 2^t by d
RoundScaled(s, n, d, e, t) ==
    RoundSticky(s, BDivMod(IF t >= 0 THEN BShl(n, t) ELSE n,
                           IF t < 0 THEN BShl(d, -t) ELSE d),
                e - t)

\* the binary64 nearest to (-1)^s * (n / d) * 2^e, ties to even
RoundNearest(s, n, d, e) ==
    IF n = <<>> THEN Zero
    ELSE IF d = <<1>> THEN RoundInteger(s, n, e)
    ELSE RoundScaled(s, n, d, e, MantBits + 2 + BBitLen(d) - BBitLen(n))

IAbs(i) == IF i < 0 THEN -i ELSE i

\* the number literal i / j (j > 0), e.g. 0.1 is FromRat(1, 10)
FromRat(i, j) == RoundNearest(IF i < 0 THEN 1 ELSE 0, BInt(IAbs(i)), BInt(j), 0)

FromInt(i) == RoundInteger(IF i < 0 THEN 1 ELSE 0, BInt(IAbs(i)), 0)

FNeg(a) == IF IsNaN(a) \/ IsZero(a) THEN a ELSE [a EXCEPT !.s = 1 - a.s]

\* Math.abs
FAbs(a) == [a EXCEPT !.s = 0]

Sgn(a) == IF IsZero(a) THEN 0 ELSE IF a.s = 0 THEN 1 ELSE -1

CmpMag(a, b) ==
    IF a.e < b.e THEN -1 ELSE IF a.e > b.e THEN 1 ELSE BCmp(a.m, b.m)

\* order of two numbers that are not NaN: -1, 0 or 1
FCmp(a, b) ==
    IF a = b THEN 0
    ELSE IF IsInf(a) THEN (IF a.s = 1 THEN -1 ELSE 1)
    ELSE IF IsInf(b) THEN (IF b.s = 1 THEN 1 ELSE -1)
    ELSE IF Sgn(a) # Sgn(b) THEN (IF Sgn(a) < Sgn(b) THEN -1 ELSE 1)
    ELSE Sgn(a) * CmpMag(a, b)

\* the comparison operators: every comparison with NaN is false
FLt(a, b) == ~IsNaN(a) /\ ~IsNaN(b) /\ FCmp(a, b) < 0

FLe(a, b) == ~IsNaN(a) /\ ~IsNaN(b) /\ FCmp(a, b) <= 0

FGt(a, b) == FLt(b, a)

FGe(a, b) == FLe(b, a)

\* ===
FEq(a, b) == ~IsNaN(a) /\ ~IsNaN(b) /\ a = b

\* a + b for the magnitudes x and y of a and b in units of 2^emin
FAddJoin(a, b, x, y, emin) ==
    RoundInteger(IF a.s = b.s \/ BCmp(x, y) >= 0 THEN a.s ELSE b.s,
                 IF a.s = b.s THEN BAdd(x, y)
                 ELSE IF BCmp(x, y) >= 0 THEN BSub(x, y) ELSE BSub(y, x),
                 emin)

FAddScaled(a, b, emin) ==
    FAddJoin(a, b, BShl(a.m, a.e - emin), BShl(b.m, b.e - emin), emin)

FAdd(a, b) ==
    IF IsNaN(a) \/ IsNaN(b) THEN NaN
    ELSE IF IsInf(a) THEN (IF IsInf(b) /\ a.s # b.s THEN NaN ELSE a)
    ELSE IF IsInf(b) THEN b
    ELSE IF IsZero(a) THEN b
    ELSE IF IsZero(b) THEN a
    ELSE FAddScaled(a, b, IMin(a.e, b.e))

FSub(a, b) == FAdd(a, FNeg(b))

XorSign(a, b) == IF a.s = b.s THEN 0 ELSE 1

FMul(a, b) ==
    IF IsNaN(a) \/ IsNaN(b) THEN NaN
    ELSE IF IsInf(a) \/ IsInf(b)
    THEN (IF IsZero(a) \/ IsZero(b) THEN NaN ELSE Infinity(XorSign(a, b)))
    ELSE IF IsZero(a) \/ IsZero(b) THEN Zero
    ELSE RoundInteger(XorSign(a, b), BMul(a.m, b.m), a.e + b.e)

FDiv(a, b) ==
    IF IsNaN(a) \/ IsNaN(b) THEN NaN
    ELSE IF IsInf(a) THEN (IF IsInf(b) THEN NaN ELSE Infinity(XorSign(a, b)))
    ELSE IF IsInf(b) THEN Zero
    ELSE IF IsZero(b) THEN (IF IsZero(a) THEN NaN ELSE Infinity(XorSign(a, b)))
    ELSE IF IsZero(a) THEN Zero
    ELSE RoundNearest(XorSign(a, b), a.m, b.m, a.e - b.e)

\* Math.floor
Floor(a) ==
    IF ~IsFinite(a) \/ IsZero(a) \/ a.e >= 0 THEN a
    ELSE RoundInteger(a.s, IF a.s = 0 THEN BShr(a.m, -a.e) ELSE BCeilShr(a.m, -a.e), 0)

\* floor(a + 0.5) for twom = 2 * |a| and half = 1/2, both in units of 2^(a.e - 1)
MathRoundHalves(a, twom, half) ==
    RoundInteger(a.s,
                 IF a.s = 0 THEN BShr(BAdd(twom, half), 1 - a.e)
                 ELSE IF BCmp(twom, half) <= 0 THEN <<>>
                 ELSE BCeilShr(BSub(twom, half), 1 - a.e),
                 0)

\* Math.round: the integer nearest to a, a tie going to the larger one
MathRound(a) ==
    IF ~IsFinite(a) \/ IsZero(a) \/ a.e >= 0 THEN a
    ELSE MathRoundHalves(a, BShl(a.m, 1), BShl(<<1>>, -a.e))

\* the value of an integer-valued number of small magnitude, as an integer
ToInt(a) ==
    IF IsZero(a) THEN 0
    ELSE (IF a.s = 0 THEN 1 ELSE -1)
         * BToInt(IF a.e >= 0 THEN BShl(a.m, a.e) ELSE BShr(a.m, -a.e))

-----------------------------------------------------------------------------
(* Number-to-text conversions of the language: template-literal            *)
(* interpolation `${x}` (Number::toString, the shortest decimal that reads *)
(* back as the same number) and Number.prototype.toFixed.  Exponent        *)
(* notation (magnitudes below 1e-6 or from 1e21) is not modelled: no value *)
(* formatted here gets near either.  The glyph U+2212 is written           *)
(* "[U+2212]".                                                              *)

MinusSign == "[U+2212]"

DigitChar(d) == <<"0", "1", "2", "3", "4", "5", "6", "7", "8", "9">>[d + 1]

\* the four decimal digits of k < 10^4
Digits4(k) ==
    DigitChar(k \div 1000) \o DigitChar((k \div 100) % 10)
        \o DigitChar((k \div 10) % 10) \o DigitChar(k % 10)

RECURSIVE IntDecimal(_)
IntDecimal(k) == IF k < 10 THEN DigitChar(k) ELSE IntDecimal(k \div 10) \o DigitChar(k % 10)

\* the decimal digits of n > 0, four at a time below the leading ones
RECURSIVE BDecimal(_)
BDecimal(n) ==
    IF Len(n) = 1 /\ n[1] < 10^4 THEN IntDecimal(n[1])
    ELSE BDecimal(BDivSmall(n, 10^4)) \o Digits4(BModSmall(n, 10^4))

\* exactly p decimal digits of r, with leading zeros
RECURSIVE FracDigits(_, _)
FracDigits(r, p) ==
    IF p = 0 THEN ""
    ELSE IF p < 4 THEN FracDigits(BDivSmall(r, 10), p - 1) \o DigitChar(BModSmall(r, 10))
    ELSE FracDigits(BDivSmall(r, 10^4), p - 4) \o Digits4(BModSmall(r, 10^4))

ScaledFrom(a, n) ==
    IF a.e >= 0 THEN BShl(n, a.e)
    ELSE BShr(BAdd(n, BShl(<<1>>, -a.e - 1)), -a.e)

\* the integer nearest to |a| * 10^p, a tie going up
ScaledInt(a, p) == ScaledFrom(a, BMul(a.m, BPow10(p)))

FixedText(qr, p) ==
    (IF qr.q = <<>> THEN "0" ELSE BDecimal(qr.q))
    \o (IF p = 0 THEN "" ELSE "." \o FracDigits(qr.r, p))

\* c / 10^p written with p fraction digits
FixedPoint(c, p) == FixedText(BDivMod(c, BPow10(p)), p)

\* the fewest fraction digits with which |a| reads back exactly
RECURSIVE ShortestPlaces(_, _)
ShortestPlaces(a, p) ==
    IF RoundNearest(0, ScaledInt(a, p), BPow10(p), 0) = FAbs(a) THEN p
    ELSE ShortestPlaces(a, p + 1)

\* |a| written with p fraction digits, after its sign
NumberText(a, p) == (IF a.s = 1 THEN "-" ELSE "") \o FixedPoint(ScaledInt(a, p), p)

\* `${a}`
NumberToString(a) ==
    IF IsNaN(a) THEN "NaN"
    ELSE IF IsInf(a) THEN (IF a.s = 1 THEN "-Infinity" ELSE "Infinity")
    ELSE IF IsZero(a) THEN "0"
    ELSE NumberText(a, ShortestPlaces(a, 0))

\* a.toFixed(p)
toFixed(a, p) ==
    IF ~IsFinite(a) THEN NumberToString(a)
    ELSE (IF a.s = 1 /\ ~IsZero(a) THEN "-" ELSE "")
         \o FixedPoint(IF IsZero(a) THEN <<>> ELSE ScaledInt(a, p), p)

-----------------------------------------------------------------------------
(* The chart data module.                                                   *)

Half == FromRat(1, 2)

\* Math.min(...xs) and Math.max(...xs): the identity of an empty spread is
\* +Infinity resp. -Infinity, and a NaN argument gives NaN
RECURSIVE MathMin(_)
MathMin(xs) ==
    IF xs = <<>> THEN Infinity(0)
    ELSE LET x == Head(xs)
             r == MathMin(Tail(xs))
         IN  IF IsNaN(x) \/ IsNaN(r) THEN NaN ELSE IF FLt(x, r) THEN x ELSE r

RECURSIVE MathMax(_)
MathMax(xs) ==
    IF xs = <<>> THEN Infinity(1)
    ELSE LET x == Head(xs)
             r == MathMax(Tail(xs))
         IN  IF IsNaN(x) \/ IsNaN(r) THEN NaN ELSE IF FGt(x, r) THEN x ELSE r

\* Math.max(...counts), the counts being integers
IntMax(cs) == MathMax([i \in 1..Len(cs) |-> FromInt(cs[i])])

\* scenario.values is the sequence of the per-area maps in iteration order.
\* Map.get gives undefined for a missing key, which behaves as NaN in every
\* arithmetic operation and comparison of this module
getValues(indicator, scenario) ==
    [i \in 1..Len(scenario.values) |->
        IF indicator \in DOMAIN scenario.values[i]
        THEN scenario.values[i][indicator] ELSE NaN]

\* Math.floor(Math.log10(s)) for a finite s > 100
RECURSIVE FloorLog10(_, _)
FloorLog10(s, k) ==
    IF FLt(s, FromInt(10^(k + 1))) THEN k ELSE FloorLog10(s, k + 1)

\* tickBranch with the first two comparisons in the other order
tickBranchReordered(s) ==
    IF FLt(s, FromInt(1)) THEN "s < 1"
    ELSE IF FLt(s, Half) THEN "s < 0.5"
    ELSE IF FGt(s, FromInt(100)) THEN "s > 100"
    ELSE "round"

\* the branch of calculateTickStepSize that returns for s = (max - min) / 4
tickBranch(s) ==
    IF FLt(s, Half) THEN "s < 0.5"
    ELSE IF FLt(s, FromInt(1)) THEN "s < 1"
    ELSE IF FGt(s, FromInt(100)) THEN "s > 100"
    ELSE "round"

\* Math.round(s / orderOfMagnitude) * orderOfMagnitude
tickRescaled(s, orderOfMagnitude) ==
    FMul(MathRound(FDiv(s, orderOfMagnitude)), orderOfMagnitude)

tickStepIn(s, branch) ==
    IF branch = "s < 0.5" THEN Half
    ELSE IF branch = "s < 1" THEN FromInt(1)
    ELSE IF branch = "s > 100"
    THEN tickRescaled(s, IF IsInf(s) THEN s ELSE FromInt(10^FloorLog10(s, 2)))
    ELSE MathRound(s)

\* the step for s = (max - min) / 4
tickStep(s) == tickStepIn(s, tickBranch(s))

calculateTickStepSize(max, min) == tickStep(FDiv(FSub(max, min), FromInt(4)))

Million == 1000000

Thousand == 1000

\* prettyLabel without the conversion of the hyphen of a negative number
prettyLabelHyphen(value, withSign) ==
    LET v    == value.v
        plus == IF withSign THEN "+" ELSE ""
    IN  IF value.t = "string" THEN v
        ELSE IF FEq(v, Zero) THEN "0"
        ELSE IF FGe(v, FromInt(Million))
        THEN plus \o NumberToString(FDiv(v, FromInt(Million))) \o "M"
        ELSE IF FGe(v, FromInt(Thousand))
        THEN plus \o NumberToString(FDiv(v, FromInt(Thousand))) \o "K"
        ELSE IF FLe(v, FromInt(-Million))
        THEN NumberToString(FDiv(v, FromInt(Million))) \o "M"
        ELSE IF FLe(v, FromInt(-Thousand))
        THEN NumberToString(FDiv(v, FromInt(Thousand))) \o "K"
        ELSE plus \o NumberToString(v)

\* value is [t |-> "string", v |-> text] or [t |-> "number", v |-> number]
prettyLabel(value, withSign) ==
    LET v    == value.v
        plus == IF withSign THEN "+" ELSE ""
    IN  IF value.t = "string" THEN v
        ELSE IF FEq(v, Zero) THEN "0"
        ELSE IF FGe(v, FromInt(Million))
        THEN plus \o NumberToString(FDiv(v, FromInt(Million))) \o "M"
        ELSE IF FGe(v, FromInt(Thousand))
        THEN plus \o NumberToString(FDiv(v, FromInt(Thousand))) \o "K"
        ELSE IF FLe(v, FromInt(-Million))
        THEN MinusSign \o NumberToString(FAbs(FDiv(v, FromInt(Million)))) \o "M"
        ELSE IF FLe(v, FromInt(-Thousand))
        THEN MinusSign \o NumberToString(FAbs(FDiv(v, FromInt(Thousand)))) \o "K"
        ELSE IF FGe(v, Zero) THEN plus \o NumberToString(v)
        ELSE MinusSign \o NumberToString(FAbs(v))

\* counts after the value whose bucket index Math.floor gave as b
binPut(counts, b, nsteps) ==
    IF FGe(b, Zero) /\ FLt(b, FromInt(nsteps))
    THEN [counts EXCEPT ![ToInt(b) + 1] = @ + 1]
    ELSE counts

\* binStep without the case that puts the maximum value in the last bin
binStepHalfOpen(counts, d, min, max, nsteps, stepSize) ==
    binPut(counts, Floor(FDiv(FSub(d, min), stepSize)), nsteps)

\* one iteration of the loop of bin over the data
binStep(counts, d, min, max, nsteps, stepSize) ==
    binPut(IF FEq(d, max) THEN [counts EXCEPT ![nsteps] = @ + 1] ELSE counts,
           Floor(FDiv(FSub(d, min), stepSize)), nsteps)

RECURSIVE binLoop(_, _, _, _, _, _)
binLoop(counts, data, min, max, nsteps, stepSize) ==
    IF data = <<>> THEN counts
    ELSE binLoop(binStep(counts, Head(data), min, max, nsteps, stepSize),
                 Tail(data), min, max, nsteps, stepSize)

\* counts[i + 1] and centres[i + 1] model counts[i] and centres[i]
binWith(data, min, max, nsteps, stepSize) ==
    [counts  |-> binLoop([i \in 1..nsteps |-> 0], data, min, max, nsteps, stepSize),
     centres |-> [i \in 1..nsteps |->
                     FAdd(min, FMul(FAdd(FromInt(i - 1), Half), stepSize))]]

bin(data, min, max, nsteps) ==
    binWith(data, min, max, nsteps, FDiv(FSub(max, min), FromInt(nsteps)))

RECURSIVE FSum(_)
FSum(xs) == IF xs = <<>> THEN Zero ELSE FAdd(FSum(SubSeq(xs, 1, Len(xs) - 1)), xs[Len(xs)])

getMean(xs) == FDiv(FSum(xs), FromInt(Len(xs)))

\* the colour ramp of src/utils/colors: nbars colours for a ramp name
makeColormap(name, n) == [i \in 1..n |-> <<name, i>>]

\* the display range of src/data/config
config == [scale |-> [min |-> FromInt(0), max |-> FromInt(10)]]

\* the two points of a mean marker: from y = 5 to 1.1 times the largest count
markerData(x, counts) ==
    << [x |-> x, y |-> FromInt(5)],
       [x |-> x, y |-> FMul(IntMax(counts), FromRat(11, 10))] >>

\* Of a dataset only type, label, data and the colours, grouping and order
\* are kept; the other style attributes are constants of the mode.
oneScenarioPayload(scenario, colors, bins, mean) ==
    [datasets |-> <<
        [type |-> "scatter",
         label |-> "Mean: " \o toFixed(mean, 2),
         data |-> markerData(mean, bins.counts),
         borderColor |-> "#000000"],
        [type |-> "bar",
         label |-> scenario.metadata.short,
         data |-> bins.counts,
         backgroundColor |-> colors] >>,
     labels |-> bins.centres,
     tickStepSize |-> calculateTickStepSize(config.scale.max, config.scale.min)]

oneScenarioFrom(indicator, scenario, nbars, rawValues) ==
    oneScenarioPayload(scenario, makeColormap(indicator, nbars),
                       bin(rawValues, config.scale.min, config.scale.max, nbars),
                       getMean(rawValues))

makeChartDataOneScenario(indicator, scenario, nbars) ==
    oneScenarioFrom(indicator, scenario, nbars, getValues(indicator, scenario))

twoScenariosPayload(scenario, compareScenario, colors, bins, cmpBins, mean, cmpMean) ==
    [datasets |-> <<
        [type |-> "scatter",
         label |-> compareScenario.metadata.short \o " mean: " \o toFixed(cmpMean, 2),
         data |-> markerData(mean, bins.counts),
         borderColor |-> "#ff0000"],
        [type |-> "scatter",
         label |-> scenario.metadata.short \o " mean: " \o toFixed(mean, 2),
         data |-> markerData(mean, bins.counts),
         borderColor |-> "#000000"],
        [type |-> "bar",
         label |-> compareScenario.metadata.short,
         data |-> cmpBins.counts,
         backgroundColor |-> "rgba(1, 1, 1, 0)",
         borderColor |-> "#f00",
         grouped |-> FALSE,
         order |-> 1],
        [type |-> "bar",
         label |-> scenario.metadata.short,
         data |-> bins.counts,
         backgroundColor |-> colors,
         grouped |-> FALSE,
         order |-> 2] >>,
     labels |-> bins.centres,
     tickStepSize |-> calculateTickStepSize(config.scale.max, config.scale.min)]

twoScenariosFrom(indicator, scenario, compareScenario, nbars, rawValues, cmpRawValues) ==
    twoScenariosPayload(scenario, compareScenario, makeColormap(indicator, nbars),
                        bin(rawValues, config.scale.min, config.scale.max, nbars),
                        bin(cmpRawValues, config.scale.min, config.scale.max, nbars),
                        getMean(rawValues), getMean(cmpRawValues))

makeChartDataTwoScenarios(indicator, scenario, compareScenario, nbars) ==
    twoScenariosFrom(indicator, scenario, compareScenario, nbars,
                     getValues(indicator, scenario), getValues(indicator, compareScenario))

\* scenValues.map((value, i) => value - cmpScenValues[i]): an index past the
\* end of cmpScenValues reads undefined
differences(scenValues, cmpScenValues) ==
    [i \in 1..Len(scenValues) |->
        FSub(scenValues[i], IF i <= Len(cmpScenValues) THEN cmpScenValues[i] ELSE NaN)]

\* .filter((value) => value !== 0)
RECURSIVE filterNonZero(_)
filterNonZero(xs) ==
    IF xs = <<>> THEN <<>>
    ELSE (IF FEq(Head(xs), Zero) THEN <<>> ELSE <<Head(xs)>>) \o filterNonZero(Tail(xs))

\* the symmetric range bound of the difference chart
differenceMax(rawValues) ==
    MathMax(<< FAbs(MathMin(rawValues)), FAbs(MathMax(rawValues)), FromRat(1, 10) >>)

differencePayload(colors, bins, min, max) ==
    [datasets |-> <<
        [type |-> "bar",
         label |-> "Difference",
         data |-> bins.counts,
         backgroundColor |-> colors] >>,
     labels |-> bins.centres,
     tickStepSize |-> calculateTickStepSize(max, min)]

differenceIn(nbars, rawValues, min, max) ==
    differencePayload(makeColormap("diff", nbars), bin(rawValues, min, max, nbars), min, max)

differenceWithin(nbars, rawValues, max) == differenceIn(nbars, rawValues, FNeg(max), max)

differenceFrom(nbars, rawValues) ==
    differenceWithin(nbars, rawValues, differenceMax(rawValues))

makeChartDataDifference(indicator, scenario, compareScenario, nbars) ==
    differenceFrom(nbars, filterNonZero(differences(getValues(indicator, scenario),
                                                    getValues(indicator, compareScenario))))

null == [null |-> TRUE]

\* the value of a call that falls off the end of the function
undefined == [undefined |-> TRUE]

\* makeChartData testing chartStyle before the null compareScenario
makeChartDataStyleFirst(indicator, scenario, compareScenario, nbars, chartStyle) ==
    IF chartStyle = "both" /\ compareScenario # null
    THEN makeChartDataTwoScenarios(indicator, scenario, compareScenario, nbars)
    ELSE IF chartStyle = "difference" /\ compareScenario # null
    THEN makeChartDataDifference(indicator, scenario, compareScenario, nbars)
    ELSE makeChartDataOneScenario(indicator, scenario, nbars)

makeChartData(indicator, scenario, compareScenario, nbars, chartStyle) ==
    IF compareScenario = null
    THEN makeChartDataOneScenario(indicator, scenario, nbars)
    ELSE IF chartStyle = "both"
    THEN makeChartDataTwoScenarios(indicator, scenario, compareScenario, nbars)
    ELSE IF chartStyle = "difference"
    THEN makeChartDataDifference(indicator, scenario, compareScenario, nbars)
    ELSE undefined

-----------------------------------------------------------------------------
(* The functions are pure: a state is one call, its arguments and, once it *)
(* has returned, its result.  Each specification below draws the arguments *)
(* of one function from a bounded set and applies the function.            *)

MaxLen == 2

MaxVal == 9

MaxBuckets == 7

MaxAreas == 2

MaxTick == 26

MaxLabel == 10

NoResult == [pending |-> TRUE]

Returned == pc = "done"

RECURSIVE SumSeq(_)
SumSeq(cs) == IF cs = <<>> THEN 0 ELSE Head(cs) + SumSeq(Tail(cs))

InRange(d, min, max) == FGe(d, min) /\ FLe(d, max)

\* ---- bin ----

\* the values tried for a range [0, mx]: one below it, its two ends, one
\* inside it, one above it, and NaN
DataValues(mx) == {FromInt(i) : i \in {-1, 0, mx \div 2, mx, mx + 1}} \cup {NaN}

DataSeqs(mx) == UNION {[1..l -> DataValues(mx)] : l \in 0..MaxLen}

\* scenario A of the end-to-end example
ScenarioA ==
    [data |-> [i \in 1..5 |-> FromInt(i)], min |-> FromInt(0), max |-> FromInt(5),
     nsteps |-> 5]

InitBin ==
    /\ pc = "bin"
    /\ out = NoResult
    /\ \/ args = ScenarioA
       \/ \E mx \in 1..MaxVal, n \in 1..MaxBuckets :
             \E d \in DataSeqs(mx) :
                args = [data |-> d, min |-> FromInt(0), max |-> FromInt(mx), nsteps |-> n]

CallBin ==
    /\ pc = "bin"
    /\ out' = bin(args.data, args.min, args.max, args.nsteps)
    /\ pc' = "done"
    /\ UNCHANGED args

SpecBin == InitBin /\ [][CallBin]_vars

\* ---- calculateTickStepSize ----

TickFactors == {1, 4, 100}

InitTick ==
    /\ pc = "calculateTickStepSize"
    /\ out = NoResult
    /\ \E i \in 0..MaxTick, f \in TickFactors, mn \in {0, 1} :
          args = [max |-> FromInt(i * f), min |-> FromInt(mn)]

CallTick ==
    /\ pc = "calculateTickStepSize"
    /\ out' = calculateTickStepSize(args.max, args.min)
    /\ pc' = "done"
    /\ UNCHANGED args

SpecTick == InitTick /\ [][CallTick]_vars

\* ---- prettyLabel ----

LabelFactors == {1, 500, 500000}

\* halves, so that the K and M quotients have fraction digits
LabelNumbers(v) ==
    {FDiv(FromInt(v * f), FromInt(2)) : f \in LabelFactors}
    \cup {NaN, Infinity(0), Infinity(1)}

InitLabel ==
    /\ pc = "prettyLabel"
    /\ out = NoResult
    /\ \E w \in BOOLEAN :
          \/ \E v \in (-MaxLabel)..MaxLabel : \E x \in LabelNumbers(v) :
                args = [value |-> [t |-> "number", v |-> x], withSign |-> w]
          \/ \E x \in {"", "n/a"} :
                args = [value |-> [t |-> "string", v |-> x], withSign |-> w]

CallLabel ==
    /\ pc = "prettyLabel"
    /\ out' = prettyLabel(args.value, args.withSign)
    /\ pc' = "done"
    /\ UNCHANGED args

SpecLabel == InitLabel /\ [][CallLabel]_vars

\* ---- makeChartData ----

Indicators == {"ind_a", "ind_b"}

AreaValues == {0, MaxVal \div 2, MaxVal}

\* the record of one area: the two indicators mirror each other
AreaRecord(v) == [ind_a |-> FromInt(v), ind_b |-> FromInt(MaxVal - v)]

Scenarios(short) ==
    {[metadata |-> [short |-> short], values |-> [i \in 1..MaxAreas |-> AreaRecord(vs[i])]] :
        vs \in [1..MaxAreas -> AreaValues]}

ChartStyles == {"both", "difference", "stacked"}

\* the numbers of bars tried
ChartBars == {1, 5, MaxBuckets}

InitChart ==
    /\ pc = "makeChartData"
    /\ out = NoResult
    /\ \E i \in Indicators, n \in ChartBars, c \in ChartStyles :
          \E sc \in Scenarios("A"), cmp \in Scenarios("B") \cup {null} :
             args = [indicator |-> i, scenario |-> sc, compareScenario |-> cmp,
                     nbars |-> n, chartStyle |-> c]

CallChart ==
    /\ pc = "makeChartData"
    /\ out' = makeChartData(args.indicator, args.scenario, args.compareScenario,
                            args.nbars, args.chartStyle)
    /\ pc' = "done"
    /\ UNCHANGED args

SpecChart == InitChart /\ [][CallChart]_vars

-----------------------------------------------------------------------------
(* Properties of bin, checked under SpecBin.                               *)

InRangeIndices == {i \in 1..Len(args.data) : InRange(args.data[i], args.min, args.max)}

Front(xs) == SubSeq(xs, 1, Len(xs) - 1)

\* C1: when every value of data lies in [min, max], the counts returned by
\* bin sum to the length of data: each value is counted in exactly one bucket.
C1_AllInRangeCounted ==
    (Returned /\ InRangeIndices = 1..Len(args.data))
        => SumSeq(out.counts) = Len(args.data)

\* C2: counts has length nsteps, and a value equal to max adds exactly one to
\* the last entry of counts and nothing to any other entry.
C2_MaxCountedOnceInLastBucket ==
    Returned =>
        /\ Len(out.counts) = args.nsteps
        /\ (args.data # <<>> /\ FEq(args.data[Len(args.data)], args.max))
              => out.counts =
                    [bin(Front(args.data), args.min, args.max, args.nsteps).counts
                        EXCEPT ![args.nsteps] = @ + 1]

\* C3: values below min, above max or NaN are counted nowhere: the counts sum
\* to the number of values lying in [min, max], which is at most the length
\* of data.
C3_OnlyInRangeCounted ==
    Returned =>
        /\ SumSeq(out.counts) <= Len(args.data)
        /\ SumSeq(out.counts) = Cardinality(InRangeIndices)

CentresA == [i \in 1..5 |-> FromRat(2 * i - 1, 2)]

\* C4 as stated: binning [1,2,3,4,5] over [0,5] in 5 buckets gives the counts
\* [1,1,1,1,1] and the centres [0.5,1.5,2.5,3.5,4.5].
C4_ScenarioA_AsStated ==
    (Returned /\ args = ScenarioA)
        => out = [counts |-> <<1, 1, 1, 1, 1>>, centres |-> CentresA]

\* C4 amended: binning [1,2,3,4,5] over [0,5] in 5 buckets gives the counts
\* [0,1,1,1,2] (1 lies in the second bucket [1,2), and 5 = max joins 4 in the
\* last one) and the centres [0.5,1.5,2.5,3.5,4.5].
C4_ScenarioA ==
    (Returned /\ args = ScenarioA)
        => out = [counts |-> <<0, 1, 1, 1, 2>>, centres |-> CentresA]

C4_Witness == Returned /\ args = ScenarioA /\ out.counts[5] = 2 /\ out.counts[1] = 0

-----------------------------------------------------------------------------
(* Properties of calculateTickStepSize, checked under SpecTick.            *)

TickCall(max, min) == Returned /\ args = [max |-> FromInt(max), min |-> FromInt(min)]

TickRaw == FDiv(FSub(args.max, args.min), FromInt(4))

\* C6 as stated: calculateTickStepSize(104, 0) is 25, from the branch s > 100;
\* calculateTickStepSize(1, 0) is 0.5 and calculateTickStepSize(3, 0) is 1.
C6_TickSteps_AsStated ==
    /\ TickCall(104, 0) => (out = FromInt(25) /\ tickBranch(TickRaw) = "s > 100")
    /\ TickCall(1, 0) => (out = Half /\ tickBranch(TickRaw) = "s < 0.5")
    /\ TickCall(3, 0) => (out = FromInt(1) /\ tickBranch(TickRaw) = "s < 1")

\* C6 amended: calculateTickStepSize(104, 0) is 26, from the last branch
\* (s = 26 is not above 100, so it is rounded to the nearest integer);
\* calculateTickStepSize(1, 0) is 0.5 and calculateTickStepSize(3, 0) is 1,
\* from the branches s < 0.5 and s < 1.
C6_TickSteps ==
    /\ TickCall(104, 0) => (out = FromInt(26) /\ tickBranch(TickRaw) = "round")
    /\ TickCall(1, 0) => (out = Half /\ tickBranch(TickRaw) = "s < 0.5")
    /\ TickCall(3, 0) => (out = FromInt(1) /\ tickBranch(TickRaw) = "s < 1")

C6_Witness == TickCall(104, 0) /\ out = FromInt(26)

-----------------------------------------------------------------------------
(* Properties of prettyLabel, checked under SpecLabel.                     *)

Num(x) == [t |-> "number", v |-> x]

LabelCall(x, withSign) == Returned /\ args = [value |-> Num(x), withSign |-> withSign]

\* C8: for a number v < 0 the label is the minus sign U+2212 followed by the
\* unsigned label of -v, whatever withSign is; for v = 0 it is "0"; for v > 0
\* it is the unsigned label of v, after a "+" exactly when withSign is set.
\* prettyLabel(2500000) = "2.5M", prettyLabel(-2500) = "[U+2212]2.5K",
\* prettyLabel(0) = "0", prettyLabel(5, true) = "+5".
C8_SignHandling ==
    /\ (Returned /\ args.value.t = "number") =>
          LET v == args.value.v
          IN  /\ FLt(v, Zero) => out = MinusSign \o prettyLabel(Num(FNeg(v)), FALSE)
              /\ FEq(v, Zero) => out = "0"
              /\ FGt(v, Zero) => out = (IF args.withSign THEN "+" ELSE "")
                                          \o prettyLabel(Num(v), FALSE)
    /\ LabelCall(FromInt(2500000), FALSE) => out = "2.5M"
    /\ LabelCall(FromInt(-2500), FALSE) => out = MinusSign \o "2.5K"
    /\ LabelCall(Zero, FALSE) => out = "0"
    /\ LabelCall(FromInt(5), TRUE) => out = "+5"

C8_Witness == LabelCall(FromInt(-2500), TRUE) /\ out = MinusSign \o "2.5K"

-----------------------------------------------------------------------------
(* Properties of makeChartData, checked under SpecChart.                   *)

Types(payload) == [i \in 1..Len(payload.datasets) |-> payload.datasets[i].type]

Compared == Returned /\ args.compareScenario # null

Values == getValues(args.indicator, args.scenario)

CmpValues == getValues(args.indicator, args.compareScenario)

ChangedAreas == {i \in 1..Len(Values) : Values[i] # CmpValues[i]}

\* C5: in difference mode with two scenarios of identical values no
\* difference is retained, the range bound is the 0.1 floor, the labels are
\* the bucket centres of [-0.1, 0.1] and every count is 0.
C5_IdenticalScenariosUseFloor ==
    (Compared /\ args.chartStyle = "difference" /\ ChangedAreas = {}) =>
        /\ differenceMax(filterNonZero(differences(Values, CmpValues))) = FromRat(1, 10)
        /\ out.labels = bin(<<>>, FromRat(-1, 10), FromRat(1, 10), args.nbars).centres
        /\ \A i \in 1..args.nbars : IsFinite(out.labels[i])
        /\ \A i \in 1..args.nbars : out.datasets[1].data[i] = 0

\* C7: a null compareScenario gives the single-scenario payload (mean marker
\* and bars) whatever chartStyle is; otherwise chartStyle "both" gives the
\* overlay payload (four datasets), "difference" gives the difference payload
\* (one bar dataset), and any other chartStyle gives undefined.
C7_Dispatch ==
    Returned =>
        IF args.compareScenario = null
        THEN /\ out # undefined
             /\ Types(out) = <<"scatter", "bar">>
             /\ out.datasets[2].label = args.scenario.metadata.short
        ELSE IF args.chartStyle = "both"
        THEN /\ out # undefined
             /\ Types(out) = <<"scatter", "scatter", "bar", "bar">>
             /\ out.datasets[3].label = args.compareScenario.metadata.short
             /\ out.datasets[4].label = args.scenario.metadata.short
        ELSE IF args.chartStyle = "difference"
        THEN /\ out # undefined
             /\ Types(out) = <<"bar">>
             /\ out.datasets[1].label = "Difference"
        ELSE out = undefined

C7_Witness == Compared /\ args.chartStyle = "stacked" /\ out = undefined

\* C9: in difference mode, when some area differs between the two scenarios,
\* the range bound max is at least 0.1 and at least |d| for every retained
\* difference d, and the counts of the bar dataset sum to the number of areas
\* whose difference is not zero: no retained difference is dropped, and an
\* area with a zero difference is in no bucket.
C9_DifferenceCountsChangedAreas ==
    (Compared /\ args.chartStyle = "difference" /\ ChangedAreas # {}) =>
        LET rawValues == filterNonZero(differences(Values, CmpValues))
            max       == differenceMax(rawValues)
        IN  /\ FGe(max, FromRat(1, 10))
            /\ \A i \in 1..Len(rawValues) : FLe(FAbs(rawValues[i]), max)
            /\ SumSeq(out.datasets[1].data) = Cardinality(ChangedAreas)

\* C10: in overlay mode the red marker, labelled with the mean of the
\* comparison scenario, is drawn at that mean, and the black marker, labelled
\* with the mean of the primary scenario, is drawn at the primary mean.
C10_MarkersAtReportedMeans ==
    (Compared /\ args.chartStyle = "both") =>
        /\ out.datasets[1].borderColor = "#ff0000"
        /\ out.datasets[1].label = "B mean: " \o toFixed(getMean(CmpValues), 2)
        /\ \A i \in 1..2 : out.datasets[1].data[i].x = getMean(CmpValues)
        /\ out.datasets[2].borderColor = "#000000"
        /\ out.datasets[2].label = "A mean: " \o toFixed(getMean(Values), 2)
        /\ \A i \in 1..2 : out.datasets[2].data[i].x = getMean(Values)

====
